---- MODULE Spec2Model ----
(***************************************************************************)
(* The article summarization pipeline of easy-web-summarizer:              *)
(*   load_clean_article -> clamp_text -> chain.invoke -> parse_json_safely *)
(* in its two variants, the POST /summarize handler                        *)
(* (app/web_summarizer_api.py) and the command-line main                   *)
(* (app/summarizer.py).                                                    *)
(*                                                                         *)
(* Text (titles, bodies, summaries, tags) is held run-length encoded: a    *)
(* string is a sequence of runs [c |-> character, n |-> repetitions] with  *)
(* n >= 1 and no two adjacent runs of the same character, so every string  *)
(* has exactly one representation and 5000-character bodies stay small.    *)
(* URLs are plain sequences of one-character strings.                      *)
(***************************************************************************)
EXTENDS Integers, Sequences, FiniteSets, TLC

VARIABLES
    variant,       \* which program runs: Api or Cli
    environ,       \* os.environ, process-wide
    ua_writer,     \* the call that last assigned os.environ["USER_AGENT"] (0: none)
    pc,            \* per call: where it stands
    url,           \* per call: request.url / args.url
    article,       \* per call: the dict load_clean_article returned
    content_text,  \* per call: the clamped text sent to the backend
    raw,           \* per call: result.content
    summary,       \* per call: the summary returned or printed
    tags,          \* per call: the tags returned or printed
    exc,           \* per call: the exception the outer except caught ("" if none)
    ran,           \* per call: the loaders and pipeline functions called, in order
    ua_used,       \* per call: USER_AGENT as its document loader found it
    traf,          \* per call: what trafilatura yielded (downloaded, jtxt, jd)
    loaded,        \* per call: what the document loader's load() yielded
    t,             \* clamp_text: the argument t
    max_chars,     \* clamp_text: the argument max_chars
    clamped,       \* clamp_text: the returned string ("" before the return)
    clamp_pc       \* clamp_text: "call" before the call, "return" after it

clampVars == <<t, max_chars, clamped, clamp_pc>>

pipeVars == <<variant, environ, ua_writer, pc, url, article, content_text, raw,
              summary, tags, exc, ran, ua_used, traf, loaded>>

vars == <<pipeVars, clampVars>>

(***************************************************************************)
(* Strings                                                                 *)
(***************************************************************************)
SP == " "
TAB == "\t"
NL == "\n"

Run(c, n) == [c |-> c, n |-> n]

\* n repetitions of the character c
Rep(c, n) == IF n = 0 THEN <<>> ELSE <<Run(c, n)>>

\* a + b
Concat(a, b) ==
    IF a = <<>> THEN b
    ELSE IF b = <<>> THEN a
    ELSE IF a[Len(a)].c = b[1].c
         THEN SubSeq(a, 1, Len(a) - 1)
                \o <<Run(b[1].c, a[Len(a)].n + b[1].n)>>
                \o Tail(b)
         ELSE a \o b

\* len(s)
RECURSIVE StrLen(_)
StrLen(s) == IF s = <<>> THEN 0 ELSE s[1].n + StrLen(Tail(s))

\* s[:k], k >= 0
RECURSIVE SliceTo(_, _)
SliceTo(s, k) ==
    IF k = 0 \/ s = <<>> THEN <<>>
    ELSE IF s[1].n >= k THEN <<Run(s[1].c, k)>>
    ELSE <<s[1]>> \o SliceTo(Tail(s), k - s[1].n)

\* s[-k:], k >= 1
RECURSIVE SliceLast(_, _)
SliceLast(s, k) ==
    IF s = <<>> THEN <<>>
    ELSE LET last == s[Len(s)]
             front == SubSeq(s, 1, Len(s) - 1)
         IN IF last.n >= k THEN <<Run(last.c, k)>>
            ELSE SliceLast(front, k - last.n) \o <<last>>

\* s[i:], i >= 0
RECURSIVE SliceFrom(_, _)
SliceFrom(s, i) ==
    IF i = 0 \/ s = <<>> THEN s
    ELSE IF s[1].n > i THEN <<Run(s[1].c, s[1].n - i)>> \o Tail(s)
    ELSE SliceFrom(Tail(s), i - s[1].n)

\* the characters str.strip() removes, among those of the model's alphabet
Whitespace == {SP, TAB, NL}

\* s.strip()
RECURSIVE lstrip(_)
lstrip(s) ==
    IF s # <<>> /\ s[1].c \in Whitespace THEN lstrip(Tail(s)) ELSE s

RECURSIVE rstrip(_)
rstrip(s) ==
    IF s # <<>> /\ s[Len(s)].c \in Whitespace
    THEN rstrip(SubSeq(s, 1, Len(s) - 1)) ELSE s

strip(s) == rstrip(lstrip(s))

(***************************************************************************)
(* clamp_text                                                              *)
(***************************************************************************)
DefaultMaxChars == 4000
HeadChars == 2000
TailChars == 1000

\* U+2026 HORIZONTAL ELLIPSIS, one character
ELLIPSIS == "U+2026"

\* the literal "\n" + 2 * U+2026 + "\n"
Separator == <<Run(NL, 1), Run(ELLIPSIS, 2), Run(NL, 1)>>

\* the class [ \t]
Blank == {SP, TAB}

\* the number of leading runs of s made of characters of [ \t]
RECURSIVE LeadingBlankRuns(_)
LeadingBlankRuns(s) ==
    IF s # <<>> /\ s[1].c \in Blank THEN 1 + LeadingBlankRuns(Tail(s)) ELSE 0

\* re.sub(r"[ \t]+\n", "\n", s): every maximal run of spaces and tabs that a
\* line break follows is removed, the line break is kept
RECURSIVE re_sub_trailing_blank(_)
re_sub_trailing_blank(s) ==
    IF s = <<>> THEN <<>>
    ELSE LET k == LeadingBlankRuns(s)
             rest == SubSeq(s, k + 1, Len(s))
         IN IF k = 0
            THEN Concat(<<s[1]>>, re_sub_trailing_blank(Tail(s)))
            ELSE IF rest # <<>> /\ rest[1].c = NL
                 THEN re_sub_trailing_blank(rest)
                 ELSE Concat(SubSeq(s, 1, k), re_sub_trailing_blank(rest))

\* clamp_text keeping one character too few of the end
clamp_text_short_tail(s, limit) ==
    LET n == re_sub_trailing_blank(s)
    IN IF StrLen(n) <= limit
       THEN n
       ELSE Concat(Concat(SliceTo(n, HeadChars), Separator),
                   SliceLast(n, TailChars - 1))

\* clamp_text keeping a head that, with the tail, overruns the default budget
clamp_text_long_head(s, limit) ==
    LET n == re_sub_trailing_blank(s)
    IN IF StrLen(n) <= limit
       THEN n
       ELSE Concat(Concat(SliceTo(n, HeadChars + TailChars), Separator),
                   SliceLast(n, TailChars))

clamp_text(s, limit) ==
    LET n == re_sub_trailing_blank(s)
    IN IF StrLen(n) <= limit
       THEN n
       ELSE LET head == SliceTo(n, HeadChars)
                tail == SliceLast(n, TailChars)
            IN Concat(Concat(head, Separator), tail)

(***************************************************************************)
(* load_clean_article                                                      *)
(***************************************************************************)
\* the variants of the pipeline
Api == "web_summarizer_api.py"
Cli == "summarizer.py"

\* special_domains, each domain a sequence of characters
special_domains_api ==
    << <<"j", "u", "e", "j", "i", "n", ".", "c", "n">>,
       <<"1", "6", "3", ".", "c", "o", "m">> >>

special_domains_cli ==
    << <<"j", "u", "e", "j", "i", "n", ".", "c", "n">>,
       <<"1", "6", "3", ".", "c", "o", "m">>,
       <<"g", "u", "o", "k", "r", ".", "c", "o", "m">>,
       <<"b", "a", "i", "d", "u", ".", "c", "o", "m">>,
       <<"s", "m", "z", "d", "m", ".", "c", "o", "m">>,
       <<"n", "m", "c", ".", "c", "n">>,
       <<"5", "2", "p", "o", "j", "i", "e", ".", "c", "n">>,
       <<"t", "o", "u", "t", "i", "a", "o", ".", "c", "o", "m">>,
       <<"s", "s", "p", "a", "i", ".", "c", "o", "m">>,
       <<"s", "i", "n", "a", ".", "c", "o", "m", ".", "c", "n">>,
       <<"h", "u", "p", "u", ".", "c", "o", "m">>,
       <<"5", "1", "c", "t", "o", ".", "c", "o", "m">>,
       <<"i", "t", "h", "o", "m", "e", ".", "c", "o", "m">>,
       <<"n", "e", "w", "s", ".", "q", "q", ".", "c", "o", "m">>,
       <<"n", "o", "d", "e", "s", "e", "e", "k", ".", "c", "o", "m">>,
       <<"t", "h", "e", "p", "a", "p", "e", "r", ".", "c", "n">>,
       <<"h", "e", "l", "l", "o", "g", "i", "t", "h", "u", "b", ".", "c", "o", "m">>,
       <<"m", "i", "y", "o", "u", "s", "h", "e", ".", "c", "o", "m">> >>

\* domain in url
Contains(s, d) ==
    \E i \in 0..(Len(s) - Len(d)) : SubSeq(s, i + 1, i + Len(d)) = d

\* the host of a URL: what stands between "://" and the next "/"
HostOf(u) ==
    LET marks == {i \in 1..(Len(u) - 2) :
                    u[i] = ":" /\ u[i + 1] = "/" /\ u[i + 2] = "/"}
        first == IF marks = {} THEN 1
                 ELSE 3 + CHOOSE i \in marks : \A j \in marks : i <= j
        slashes == {i \in first..Len(u) : u[i] = "/"}
        last == IF slashes = {} THEN Len(u)
                ELSE (CHOOSE i \in slashes : \A j \in slashes : i <= j) - 1
    IN SubSeq(u, first, last)

special_domains(v) == IF v = Api THEN special_domains_api ELSE special_domains_cli

\* is_special looking at the host alone
is_special_host_only(v, u) ==
    \E i \in 1..Len(special_domains(v)) :
        Contains(HostOf(u), special_domains(v)[i])

\* any(domain in url for domain in special_domains)
is_special(v, u) ==
    \E i \in 1..Len(special_domains(v)) : Contains(u, special_domains(v)[i])

\* Python's None where a string may stand; no string has a run of length 0
PyNone == <<Run("None", 0)>>

\* x or d, for x a string or None
Or(x, d) == IF x = PyNone \/ x = <<>> THEN d ELSE x

MozillaUserAgent == "Mozilla/5.0 (Windows NT 10.0; Win64; x64) AppleWebKit/537.36"

NoArticle == [title |-> <<>>, date |-> <<>>, text |-> <<>>, url |-> <<>>]

\* lines 76-83 and 105-112: the article of what a document loader returned,
\* or the ValueError raised
article_of_docs(docs, u) ==
    IF docs = <<>> THEN [exc |-> "ValueError", article |-> NoArticle]
    ELSE LET page == docs[1]
             title == Or(page.title, <<>>)
             text == Or(page.page_content, <<>>)
         IN IF strip(text) = <<>>
            THEN [exc |-> "ValueError", article |-> NoArticle]
            ELSE [exc |-> "",
                  article |-> [title |-> strip(title), date |-> <<>>,
                               text |-> strip(text), url |-> u]]

\* article_of_trafilatura without the test of text
article_of_trafilatura_unchecked(o, u) ==
    IF o.exc \/ ~o.downloaded \/ ~o.jtxt
    THEN [found |-> FALSE, article |-> NoArticle]
    ELSE [found |-> TRUE,
          article |-> [title |-> strip(Or(o.jd.title, <<>>)),
                       date |-> Or(o.jd.date, <<>>),
                       text |-> strip(Or(o.jd.text, <<>>)), url |-> u]]

\* lines 86-100: the article trafilatura yields; found is FALSE when the
\* function goes on to WebBaseLoader.  An outcome o of trafilatura is
\* [exc, downloaded, jtxt, jd]: an exception raised inside the try, whether
\* fetch_url and extract returned something, and the decoded document.
article_of_trafilatura(o, u) ==
    IF o.exc \/ ~o.downloaded \/ ~o.jtxt
    THEN [found |-> FALSE, article |-> NoArticle]
    ELSE LET title == strip(Or(o.jd.title, <<>>))
             text == strip(Or(o.jd.text, <<>>))
         IN IF text # <<>>
            THEN [found |-> TRUE,
                  article |-> [title |-> title, date |-> Or(o.jd.date, <<>>),
                               text |-> text, url |-> u]]
            ELSE [found |-> FALSE, article |-> NoArticle]

(***************************************************************************)
(* parse_json_safely and the fallback                                      *)
(***************************************************************************)
\* JSON values: t is the type, v the string (t = "str") or the elements
\* (t = "list"); a key that the object does not have is "missing"
JStr(s) == [t |-> "str", v |-> s]
JList(q) == [t |-> "list", v |-> q]
JNum == [t |-> "num", v |-> <<>>]
JNull == [t |-> "null", v |-> <<>>]
JMissing == [t |-> "missing", v |-> <<>>]

\* The backend's output is a sequence of tokens: a code fence mark at the
\* start or the end of a line ("fence"), prose without braces ("text"), the
\* braces, and the well-formed member list of an object ("members", with the
\* object o it decodes to).
EmptyObject == [summary |-> JMissing, tags |-> JMissing]
Tok(k) == [k |-> k, o |-> EmptyObject]
Members(o) == [k |-> "members", o |-> o]

\* obj.get(key, default)
dict_get(obj, key, default) ==
    IF obj[key].t = "missing" THEN default ELSE obj[key]

\* re.sub(r"^```(?:json)?\s*|\s*```$", "", s.strip(), flags=I | M)
strip_fences(s) == SelectSeq(s, LAMBDA tok : tok.k # "fence")

\* re.search(r"\{.*\}", s, re.DOTALL): from the first "{" to the last "}"
re_search_braces(s) ==
    LET opens == {i \in 1..Len(s) : s[i].k = "{"}
        closes == {i \in 1..Len(s) : s[i].k = "}"}
    IN IF opens = {} \/ closes = {} THEN [found |-> FALSE, group |-> <<>>]
       ELSE LET i == CHOOSE x \in opens : \A y \in opens : x <= y
                j == CHOOSE x \in closes : \A y \in closes : x >= y
            IN IF i < j THEN [found |-> TRUE, group |-> SubSeq(s, i, j)]
               ELSE [found |-> FALSE, group |-> <<>>]

\* json.loads of a span that starts with "{" and ends with "}"
json_loads(span) ==
    IF Len(span) = 2 THEN [exc |-> "", obj |-> EmptyObject]
    ELSE IF Len(span) = 3 /\ span[2].k = "members"
         THEN [exc |-> "", obj |-> span[2].o]
         ELSE [exc |-> "JSONDecodeError", obj |-> EmptyObject]

SummaryMinLength == 40
SummaryMaxLength == 500
TagsMinItems == 3
TagsMaxItems == 8

\* SummOut without the bounds on tags
SummOut_valid_any_tags(sm, tg) ==
    /\ sm.t = "str"
    /\ StrLen(sm.v) >= SummaryMinLength
    /\ StrLen(sm.v) <= SummaryMaxLength
    /\ tg.t = "list"
    /\ \A i \in 1..Len(tg.v) : tg.v[i].t = "str"

\* SummOut(**obj): pydantic's validation of the two fields
SummOut_valid(sm, tg) ==
    /\ sm.t = "str"
    /\ StrLen(sm.v) >= SummaryMinLength
    /\ StrLen(sm.v) <= SummaryMaxLength
    /\ tg.t = "list"
    /\ \A i \in 1..Len(tg.v) : tg.v[i].t = "str"
    /\ Len(tg.v) >= TagsMinItems
    /\ Len(tg.v) <= TagsMaxItems

\* web_summarizer_api.py: parse_json_safely, [exc, summary, tags]
parse_json_safely_api(s) ==
    LET m == re_search_braces(strip_fences(s))
        d == json_loads(m.group)
        failed(e) == [exc |-> e, summary |-> JMissing, tags |-> JMissing]
    IN IF ~m.found THEN failed("ValueError")
       ELSE IF d.exc # "" THEN failed(d.exc)
       ELSE IF ~SummOut_valid(d.obj.summary, d.obj.tags)
            THEN failed("ValidationError")
            ELSE [exc |-> "", summary |-> d.obj.summary, tags |-> d.obj.tags]

\* summarizer.py: parse_json_safely, [exc, obj]
parse_json_safely_cli(s) ==
    LET m == re_search_braces(strip_fences(s))
        d == json_loads(m.group)
    IN IF ~m.found THEN [exc |-> "ValueError", obj |-> EmptyObject]
       ELSE d

\* an inner try that catches the decoding error alone
Caught_decode_only(v) == {"JSONDecodeError"}

\* the exceptions the inner try catches
Caught(v) ==
    IF v = Api THEN {"ValidationError", "ValueError", "JSONDecodeError"}
    ELSE {"ValueError", "JSONDecodeError"}

Char(c) == Run(c, 1)

\* the literals, one name per character
FailedLiteral(v) ==
    IF v = Api
    THEN <<Char("zhai"), Char("yao"), Char("jie"), Char("xi"),
           Char("shi"), Char("bai")>>
    ELSE <<Char("zhai"), Char("yao"), Char("sheng"), Char("cheng"),
           Char("shi"), Char("bai")>>

FallbackTitleChars == 100

\* (article["title"] or literal).strip()[:100], and the literal when empty
fallback_summary(v, title) ==
    LET s == SliceTo(strip(Or(title, FailedLiteral(v))), FallbackTitleChars)
    IN JStr(IF s = <<>> THEN FailedLiteral(v) ELSE s)

fallback_tags(v) ==
    IF v = Api
    THEN JList(<<JStr(<<Char("jie"), Char("xi"), Char("shi"), Char("bai")>>),
                 JStr(<<Char("hui"), Char("tui")>>)>>)
    ELSE JList(<<JStr(<<Char("sheng"), Char("cheng"), Char("shi"), Char("bai")>>),
                 JStr(<<Char("hui"), Char("tui")>>)>>)

\* ', '.join(tags) raises TypeError unless its argument is a string or a list of
\* strings
join_raises(tg) ==
    ~(\/ tg.t = "str"
      \/ (tg.t = "list" /\ \A i \in 1..Len(tg.v) : tg.v[i].t = "str"))

\* lines 213-224 of web_summarizer_api.py and 156-170 of summarizer.py: what
\* the handler does with the backend's output, [exc, summary, tags]
summarize_output(v, title, s) ==
    IF v = Api
    THEN LET p == parse_json_safely_api(s)
         IN IF p.exc = "" THEN p
            ELSE IF p.exc \in Caught(v)
                 THEN [exc |-> "", summary |-> fallback_summary(v, title),
                       tags |-> fallback_tags(v)]
                 ELSE p
    ELSE LET p == parse_json_safely_cli(s)
             r == IF p.exc = ""
                  THEN [exc |-> "",
                        summary |-> dict_get(p.obj, "summary", JStr(<<>>)),
                        tags |-> dict_get(p.obj, "tags", JList(<<>>))]
                  ELSE IF p.exc \in Caught(v)
                       THEN [exc |-> "",
                             summary |-> fallback_summary(v, title),
                             tags |-> fallback_tags(v)]
                       ELSE [exc |-> p.exc, summary |-> JMissing,
                             tags |-> JMissing]
         IN IF r.exc = "" /\ join_raises(r.tags)
            THEN [exc |-> "TypeError", summary |-> r.summary, tags |-> r.tags]
            ELSE r

(***************************************************************************)
(* The calls: POST /summarize (summarize_url) or main, step by step        *)
(***************************************************************************)
Calls == DOMAIN pc

\* what a call has not computed yet
NoValue == JMissing

\* the outer except: HTTPException(500) in the handler, sys.exit(1) in main
Raise(c, e) ==
    /\ pc' = [pc EXCEPT ![c] = "error"]
    /\ exc' = [exc EXCEPT ![c] = e]

\* lines 73-74: a special domain; USER_AGENT is set before Selenium loads
SpecialDomain(c) ==
    /\ pc[c] = "start"
    /\ is_special(variant, url[c])
    /\ environ' = [environ EXCEPT !.USER_AGENT = MozillaUserAgent]
    /\ ua_writer' = c
    /\ pc' = [pc EXCEPT ![c] = "selenium"]
    /\ UNCHANGED <<variant, url, article, content_text, raw, summary, tags,
                   exc, ran, ua_used, traf, loaded, clampVars>>

\* lines 75-83: SeleniumURLLoader([url]).load(); o is [exc, docs]
SeleniumLoad(c, o) ==
    /\ pc[c] = "selenium"
    /\ ran' = [ran EXCEPT ![c] = Append(@, "SeleniumURLLoader")]
    /\ ua_used' = [ua_used EXCEPT ![c] = environ.USER_AGENT]
    /\ loaded' = [loaded EXCEPT ![c] = o]
    /\ LET a == article_of_docs(o.docs, url[c])
       IN IF o.exc THEN Raise(c, "Exception") /\ UNCHANGED article
          ELSE IF a.exc # "" THEN Raise(c, a.exc) /\ UNCHANGED article
          ELSE /\ article' = [article EXCEPT ![c] = a.article]
               /\ pc' = [pc EXCEPT ![c] = "clamp"]
               /\ UNCHANGED exc
    /\ UNCHANGED <<variant, environ, ua_writer, url, content_text, raw,
                   summary, tags, traf, clampVars>>

\* lines 86-100: trafilatura, for a URL of no special domain
Trafilatura(c, o) ==
    /\ pc[c] = "start"
    /\ ~is_special(variant, url[c])
    /\ ran' = [ran EXCEPT ![c] = Append(@, "trafilatura")]
    /\ traf' = [traf EXCEPT ![c] = o]
    /\ LET a == article_of_trafilatura(o, url[c])
       IN IF a.found
          THEN /\ article' = [article EXCEPT ![c] = a.article]
               /\ pc' = [pc EXCEPT ![c] = "clamp"]
          ELSE /\ pc' = [pc EXCEPT ![c] = "user_agent"]
               /\ UNCHANGED article
    /\ UNCHANGED <<variant, environ, ua_writer, url, content_text, raw,
                   summary, tags, exc, ua_used, loaded, clampVars>>

\* line 103: USER_AGENT is set before WebBaseLoader loads
WebBaseUserAgent(c) ==
    /\ pc[c] = "user_agent"
    /\ environ' = [environ EXCEPT !.USER_AGENT = MozillaUserAgent]
    /\ ua_writer' = c
    /\ pc' = [pc EXCEPT ![c] = "webbase"]
    /\ UNCHANGED <<variant, url, article, content_text, raw, summary, tags,
                   exc, ran, ua_used, traf, loaded, clampVars>>

\* lines 104-112: WebBaseLoader(url).load(); o is [exc, docs]
WebBaseLoad(c, o) ==
    /\ pc[c] = "webbase"
    /\ ran' = [ran EXCEPT ![c] = Append(@, "WebBaseLoader")]
    /\ ua_used' = [ua_used EXCEPT ![c] = environ.USER_AGENT]
    /\ loaded' = [loaded EXCEPT ![c] = o]
    /\ LET a == article_of_docs(o.docs, url[c])
       IN IF o.exc THEN Raise(c, "Exception") /\ UNCHANGED article
          ELSE IF a.exc # "" THEN Raise(c, a.exc) /\ UNCHANGED article
          ELSE /\ article' = [article EXCEPT ![c] = a.article]
               /\ pc' = [pc EXCEPT ![c] = "clamp"]
               /\ UNCHANGED exc
    /\ UNCHANGED <<variant, environ, ua_writer, url, content_text, raw,
                   summary, tags, traf, clampVars>>

\* clamp_text(f"{article['title']}\n\n{article['text']}")
ClampArticle(c) ==
    /\ pc[c] = "clamp"
    /\ ran' = [ran EXCEPT ![c] = Append(@, "clamp_text")]
    /\ content_text' =
         [content_text EXCEPT ![c] =
            clamp_text(Concat(Concat(article[c].title, Rep(NL, 2)),
                              article[c].text),
                       DefaultMaxChars)]
    /\ pc' = [pc EXCEPT ![c] = "invoke"]
    /\ UNCHANGED <<variant, environ, ua_writer, url, article, raw, summary,
                   tags, exc, ua_used, traf, loaded, clampVars>>

\* InvokeChain calling the backend again after a failure
InvokeChain_retry(c, r) ==
    /\ pc[c] = "invoke"
    /\ ran' = [ran EXCEPT ![c] = Append(@, "chain.invoke")]
    /\ IF r.exc
       THEN UNCHANGED <<raw, pc, exc>>
       ELSE /\ raw' = [raw EXCEPT ![c] = r.content]
            /\ pc' = [pc EXCEPT ![c] = "parse"]
            /\ UNCHANGED exc
    /\ UNCHANGED <<variant, environ, ua_writer, url, article, content_text,
                   summary, tags, ua_used, traf, loaded, clampVars>>

\* setup_summarization_chain() and chain.invoke; r is [exc, content]
InvokeChain(c, r) ==
    /\ pc[c] = "invoke"
    /\ ran' = [ran EXCEPT ![c] = Append(@, "chain.invoke")]
    /\ IF r.exc
       THEN Raise(c, "Exception") /\ UNCHANGED raw
       ELSE /\ raw' = [raw EXCEPT ![c] = r.content]
            /\ pc' = [pc EXCEPT ![c] = "parse"]
            /\ UNCHANGED exc
    /\ UNCHANGED <<variant, environ, ua_writer, url, article, content_text,
                   summary, tags, ua_used, traf, loaded, clampVars>>

\* the inner try of the handler, then the response (or the prints of main)
ParseAndRespond(c) ==
    /\ pc[c] = "parse"
    /\ ran' = [ran EXCEPT ![c] = Append(@, "parse_json_safely")]
    /\ LET r == summarize_output(variant, article[c].title, raw[c])
       IN /\ summary' = [summary EXCEPT ![c] = r.summary]
          /\ tags' = [tags EXCEPT ![c] = r.tags]
          /\ IF r.exc # "" THEN Raise(c, r.exc)
             ELSE /\ pc' = [pc EXCEPT ![c] = "done"]
                  /\ UNCHANGED exc
    /\ UNCHANGED <<variant, environ, ua_writer, url, article, content_text,
                   raw, ua_used, traf, loaded, clampVars>>

(***************************************************************************)
(* What the web and the backend may answer                                 *)
(***************************************************************************)
\* https://juejin.cn/a
UrlJuejin ==
    <<"h", "t", "t", "p", "s", ":", "/", "/",
      "j", "u", "e", "j", "i", "n", ".", "c", "n", "/", "a">>

\* https://news.163.com
UrlNews163 ==
    <<"h", "t", "t", "p", "s", ":", "/", "/",
      "n", "e", "w", "s", ".", "1", "6", "3", ".", "c", "o", "m">>

\* https://example.org/a
UrlExample ==
    <<"h", "t", "t", "p", "s", ":", "/", "/",
      "e", "x", "a", "m", "p", "l", "e", ".", "o", "r", "g", "/", "a">>

\* https://example.org/163.com
UrlExamplePath163 ==
    <<"h", "t", "t", "p", "s", ":", "/", "/",
      "e", "x", "a", "m", "p", "l", "e", ".", "o", "r", "g",
      "/", "1", "6", "3", ".", "c", "o", "m">>

\* https://www.baidu.com
UrlBaidu ==
    <<"h", "t", "t", "p", "s", ":", "/", "/",
      "w", "w", "w", ".", "b", "a", "i", "d", "u", ".", "c", "o", "m">>

Urls == {UrlJuejin, UrlNews163, UrlExample, UrlExamplePath163, UrlBaidu}

Titles ==
    { PyNone, Concat(Rep(SP, 1), Rep("T", 5)), Rep("T", 150) }

Contents ==
    { PyNone, <<Run(SP, 2), Run(NL, 1)>>,
      <<Run(NL, 1), Run("a", 10), Run(SP, 1)>>,
      <<Run("a", 3000), Run(SP, 3), Run(NL, 1), Run("b", 2000)>> }

Dates == { PyNone, Rep("d", 10) }

LoadOutcomes ==
    { [exc |-> TRUE, docs |-> <<>>], [exc |-> FALSE, docs |-> <<>>] }
    \cup { [exc |-> FALSE, docs |-> <<[title |-> ti, page_content |-> co]>>] :
             ti \in Titles, co \in Contents }

NoDocument == [title |-> PyNone, text |-> PyNone, date |-> PyNone]

TrafilaturaOutcomes ==
    { [exc |-> TRUE, downloaded |-> FALSE, jtxt |-> FALSE, jd |-> NoDocument],
      [exc |-> FALSE, downloaded |-> FALSE, jtxt |-> FALSE, jd |-> NoDocument],
      [exc |-> FALSE, downloaded |-> TRUE, jtxt |-> FALSE, jd |-> NoDocument] }
    \cup { [exc |-> FALSE, downloaded |-> TRUE, jtxt |-> TRUE,
            jd |-> [title |-> ti, text |-> co, date |-> da]] :
             ti \in Titles, co \in Contents, da \in Dates }

SummaryLens == {0, 39, 40, 500, 501}
TagCounts == {0, 2, 3, 8, 9}

TagList(k) == JList([i \in 1..k |-> JStr(Rep("g", i))])

SummaryValues ==
    { JMissing, JNum } \cup { JStr(Rep("s", n)) : n \in SummaryLens }

TagsValues ==
    { JMissing, JNull, JStr(Rep("g", 4)),
      JList(<<JStr(Rep("g", 1)), JNum, JStr(Rep("g", 3))>>) }
    \cup { TagList(k) : k \in TagCounts }

Objects == { [summary |-> s, tags |-> g] : s \in SummaryValues, g \in TagsValues }

LB == Tok("{")
RB == Tok("}")

\* the objects the backend wraps in a fence or in prose
WrappedObjects ==
    { [summary |-> JStr(Rep("s", n)), tags |-> TagList(k)] :
        n \in {39, 40}, k \in {2, 3} }

RawOutputs ==
    { <<>>, <<Tok("text")>>, <<RB, LB>>, <<LB, Tok("text"), RB>>, <<LB, RB>>,
      <<Tok("fence"), LB, RB, Tok("fence")>> }
    \cup { <<LB, Members(o), RB>> : o \in Objects }
    \cup { <<Tok("fence"), LB, Members(o), RB, Tok("fence")>> :
             o \in WrappedObjects }
    \cup { <<Tok("text"), LB, Members(o), RB, Tok("text")>> :
             o \in WrappedObjects }
    \cup { <<LB, Members(o), RB, Tok("text"), LB, Members(o), RB>> :
             o \in WrappedObjects }

Responses ==
    { [exc |-> TRUE, content |-> <<>>] }
    \cup { [exc |-> FALSE, content |-> s] : s \in RawOutputs }

DefaultEnviron ==
    [USER_AGENT |-> "", OLLAMA_MODEL |-> "gemma3:4b",
     OLLAMA_BASE_URL |-> "http://127.0.0.1:11434"]

\* the environment of the deployment: USER_AGENT unset, or set by it
Environments ==
    { DefaultEnviron, [DefaultEnviron EXCEPT !.USER_AGENT = "deployment"] }

NoTrafilatura ==
    [exc |-> FALSE, downloaded |-> FALSE, jtxt |-> FALSE, jd |-> NoDocument]

NoLoad == [exc |-> FALSE, docs |-> <<>>]

InitCalls(n, urls, envs) ==
    /\ variant \in {Api, Cli}
    /\ environ \in envs
    /\ ua_writer = 0
    /\ pc = [c \in 1..n |-> "start"]
    /\ url \in [1..n -> urls]
    /\ article = [c \in 1..n |-> NoArticle]
    /\ content_text = [c \in 1..n |-> <<>>]
    /\ raw = [c \in 1..n |-> <<>>]
    /\ summary = [c \in 1..n |-> NoValue]
    /\ tags = [c \in 1..n |-> NoValue]
    /\ exc = [c \in 1..n |-> ""]
    /\ ran = [c \in 1..n |-> <<>>]
    /\ ua_used = [c \in 1..n |-> ""]
    /\ traf = [c \in 1..n |-> NoTrafilatura]
    /\ loaded = [c \in 1..n |-> NoLoad]
    /\ t = <<>>
    /\ max_chars = DefaultMaxChars
    /\ clamped = <<>>
    /\ clamp_pc = "idle"

\* one call
Init == InitCalls(1, Urls, {DefaultEnviron})

Next ==
    \/ \E c \in Calls : SpecialDomain(c)
    \/ \E c \in Calls, o \in LoadOutcomes : SeleniumLoad(c, o)
    \/ \E c \in Calls, o \in TrafilaturaOutcomes : Trafilatura(c, o)
    \/ \E c \in Calls : WebBaseUserAgent(c)
    \/ \E c \in Calls, o \in LoadOutcomes : WebBaseLoad(c, o)
    \/ \E c \in Calls : ClampArticle(c)
    \/ \E c \in Calls, r \in Responses : InvokeChain(c, r)
    \/ \E c \in Calls : ParseAndRespond(c)

Spec == Init /\ [][Next]_vars

(***************************************************************************)
(* Two calls of one process at once, as the server's workers run them      *)
(***************************************************************************)
ConcUrls == {UrlJuejin, UrlExample}

ConcLoadOutcomes ==
    { [exc |-> FALSE, docs |-> <<>>],
      [exc |-> FALSE,
       docs |-> <<[title |-> Rep("T", 5), page_content |-> Rep("a", 10)]>>] }

ConcTrafilaturaOutcomes ==
    { [exc |-> TRUE, downloaded |-> FALSE, jtxt |-> FALSE, jd |-> NoDocument],
      [exc |-> FALSE, downloaded |-> TRUE, jtxt |-> TRUE,
       jd |-> [title |-> Rep("T", 5), text |-> Rep("a", 10), date |-> PyNone]] }

ConcResponses ==
    { [exc |-> TRUE, content |-> <<>>],
      [exc |-> FALSE, content |-> <<Tok("text")>>],
      [exc |-> FALSE,
       content |-> <<LB, Members([summary |-> JStr(Rep("s", 40)),
                                  tags |-> TagList(3)]), RB>>] }

InitConc == InitCalls(2, ConcUrls, Environments) /\ variant = Api

NextConc ==
    \/ \E c \in Calls : SpecialDomain(c)
    \/ \E c \in Calls, o \in ConcLoadOutcomes : SeleniumLoad(c, o)
    \/ \E c \in Calls, o \in ConcTrafilaturaOutcomes : Trafilatura(c, o)
    \/ \E c \in Calls : WebBaseUserAgent(c)
    \/ \E c \in Calls, o \in ConcLoadOutcomes : WebBaseLoad(c, o)
    \/ \E c \in Calls : ClampArticle(c)
    \/ \E c \in Calls, r \in ConcResponses : InvokeChain(c, r)
    \/ \E c \in Calls : ParseAndRespond(c)

SpecConc == InitConc /\ [][NextConc]_vars

(***************************************************************************)
(* Properties of the calls                                                 *)
(***************************************************************************)
Ran(c, f) == \E i \in 1..Len(ran[c]) : ran[c][i] = f

Count(c, f) == Cardinality({i \in 1..Len(ran[c]) : ran[c][i] = f})

Last(q) == q[Len(q)]

IsPrefix(a, b) == Len(a) <= Len(b) /\ SubSeq(b, 1, Len(a)) = a

Finished(c) == pc[c] \in {"done", "error"}

\* the strategies of load_clean_article; each issues one network fetch
Loaders == {"SeleniumURLLoader", "trafilatura", "WebBaseLoader"}

Fetches(c) == Cardinality({i \in 1..Len(ran[c]) : ran[c][i] \in Loaders})

\* load_clean_article returned an article / raised
Extracted(c) == article[c] # NoArticle

ExtractionFailed(c) ==
    pc[c] = "error" /\ ran[c] # <<>> /\ Last(ran[c]) \in Loaders

\* the validator's constraints, as the specification states them
Accepted(sm, tg) ==
    /\ sm.t = "str"
    /\ StrLen(sm.v) \in 40..500
    /\ tg.t = "list"
    /\ Len(tg.v) \in 3..8
    /\ \A i \in 1..Len(tg.v) : tg.v[i].t = "str"

\* the object located in a raw output and its decoding
Located(s) == re_search_braces(strip_fences(s))

Decoding(s) == json_loads(Located(s).group)

\* no object can be located, the span does not decode, or the decoded
\* object violates the schema
Rejected(s) ==
    \/ ~Located(s).found
    \/ Decoding(s).exc # ""
    \/ ~Accepted(Decoding(s).obj.summary, Decoding(s).obj.tags)

\* the fallback result of a call: the title cut to 100 characters, or the
\* literal when the title is empty, and the two fixed tags
IsFallback(c) ==
    /\ summary[c] =
         JStr(IF article[c].title = <<>> THEN FailedLiteral(variant)
              ELSE SliceTo(article[c].title, 100))
    /\ tags[c] = fallback_tags(variant)

\* C1: in both variants the (summary, tags) pair handed to the caller
\* satisfies the validator (summary a string of 40..500 characters, tags 3..8
\* strings) or is exactly the fallback result.
C1_ValidOrFallback ==
    \A c \in Calls :
        pc[c] = "done" => Accepted(summary[c], tags[c]) \/ IsFallback(c)

\* C2: when extraction succeeded and the backend answered with an output in
\* which no object is located, that does not decode or that violates the
\* schema, the call does not fail: it returns exactly 2 tags and a non-empty
\* summary.
C2_FallbackTotality ==
    \A c \in Calls :
        (Finished(c) /\ Ran(c, "parse_json_safely") /\ Rejected(raw[c])) =>
            /\ pc[c] = "done"
            /\ tags[c].t = "list" /\ Len(tags[c].v) = 2
            /\ summary[c].t = "str" /\ summary[c].v # <<>>

LightUnusable(o) ==
    \/ o.exc
    \/ ~o.downloaded
    \/ ~o.jtxt
    \/ strip(Or(o.jd.text, <<>>)) = <<>>

\* a document loader threw, or yielded no document or one whose text is
\* empty once trimmed
LoadUnusable(o) ==
    \/ o.exc
    \/ o.docs = <<>>
    \/ strip(Or(o.docs[1].page_content, <<>>)) = <<>>

HeavyTaken(c) == pc[c] = "selenium" \/ Ran(c, "SeleniumURLLoader")

\* C5 as claimed: the heavy-fetch strategy runs if and only if the host of
\* the URL contains a listed domain.
C5_HeavyIffHostListed ==
    \A c \in Calls :
        pc[c] # "start" =>
            (HeavyTaken(c) <=>
               \E i \in 1..Len(special_domains(variant)) :
                   Contains(HostOf(url[c]), special_domains(variant)[i]))

\* C5 amended: the heavy-fetch strategy runs if and only if the URL, host or
\* path, contains a listed domain; where it runs no other strategy is
\* invoked, its article is returned as it is, and a missing or empty result
\* fails the call at once.
C5_HeavyIffUrlListed ==
    \A c \in Calls :
        /\ pc[c] # "start" =>
             (HeavyTaken(c) <=>
                \E i \in 1..Len(special_domains(variant)) :
                    Contains(url[c], special_domains(variant)[i]))
        /\ HeavyTaken(c) =>
             /\ ~Ran(c, "trafilatura") /\ ~Ran(c, "WebBaseLoader")
             /\ Fetches(c) <= 1
        /\ (Ran(c, "SeleniumURLLoader") /\ LoadUnusable(loaded[c])) =>
             (pc[c] = "error" /\ ran[c] = <<"SeleniumURLLoader">>)
        /\ (Ran(c, "SeleniumURLLoader") /\ ~LoadUnusable(loaded[c])) =>
             /\ article[c].text = strip(loaded[c].docs[1].page_content)
             /\ article[c].title = strip(Or(loaded[c].docs[1].title, <<>>))
             /\ pc[c] # "error" \/ Ran(c, "clamp_text")

\* Selenium has loaded the page of a URL whose host contains no listed
\* domain, and the call went on with its article
C5_Witness ==
    \E c \in Calls :
        /\ Ran(c, "SeleniumURLLoader")
        /\ ~\E i \in 1..Len(special_domains(variant)) :
               Contains(HostOf(url[c]), special_domains(variant)[i])
        /\ pc[c] = "done"

\* C6 as claimed: a call that reaches the backend has made one network fetch
\* and makes one backend call.
C6_OneFetchOneBackendCall ==
    \A c \in Calls :
        Ran(c, "chain.invoke") =>
            (Fetches(c) = 1 /\ Count(c, "chain.invoke") = 1)

\* the orders in which a call runs its steps
Sequences ==
    { <<"SeleniumURLLoader", "clamp_text", "chain.invoke", "parse_json_safely">>,
      <<"trafilatura", "clamp_text", "chain.invoke", "parse_json_safely">>,
      <<"trafilatura", "WebBaseLoader", "clamp_text", "chain.invoke",
        "parse_json_safely">> }

\* C6 amended: a call runs each strategy, clamp_text and the backend call at
\* most once and in that order, with no retry; extraction makes one network
\* fetch per strategy tried, one or two, and two exactly when WebBaseLoader
\* follows trafilatura; the backend is invoked only after extraction
\* succeeded, and a call that returns has clamped and invoked exactly once.
C6_Sequencing ==
    \A c \in Calls :
        /\ \E q \in Sequences : IsPrefix(ran[c], q)
        /\ Ran(c, "chain.invoke") => Extracted(c)
        /\ ExtractionFailed(c) =>
             (~Ran(c, "clamp_text") /\ ~Ran(c, "chain.invoke"))
        /\ Fetches(c) <= 2
        /\ Fetches(c) = 2 <=> Ran(c, "WebBaseLoader")
        /\ pc[c] = "done" =>
             /\ Fetches(c) >= 1
             /\ Count(c, "clamp_text") = 1
             /\ Count(c, "chain.invoke") = 1

\* a call has returned after two network fetches and one backend call
C6_Witness ==
    \E c \in Calls :
        pc[c] = "done" /\ Fetches(c) = 2 /\ Count(c, "chain.invoke") = 1

\* C7: during a call the process-wide configuration is only read, never
\* written.
C7_ConfigurationReadOnly == [][environ' = environ]_vars

\* C10: POST /summarize accepts a decoded payload if and only if summary is
\* a string of 40..500 characters and tags is a sequence of 3..8 strings, and
\* then returns its fields verbatim; every other payload gets the fallback.
C10_ValidatorBoundary ==
    \A c \in Calls :
        (variant = Api /\ Finished(c) /\ Ran(c, "parse_json_safely")
           /\ Located(raw[c]).found /\ Decoding(raw[c]).exc = "") =>
            LET o == Decoding(raw[c]).obj
            IN /\ pc[c] = "done"
               /\ IF Accepted(o.summary, o.tags)
                  THEN summary[c] = o.summary /\ tags[c] = o.tags
                  ELSE IsFallback(c)
               /\ (summary[c] = o.summary /\ tags[c] = o.tags)
                    <=> Accepted(o.summary, o.tags)

\* a payload on the boundary, 40 characters and 3 tags, has been returned
C10_Witness ==
    \E c \in Calls :
        /\ variant = Api
        /\ pc[c] = "done"
        /\ Located(raw[c]).found
        /\ summary[c] = Decoding(raw[c]).obj.summary
        /\ tags[c] = Decoding(raw[c]).obj.tags
        /\ summary[c].t = "str" /\ StrLen(summary[c].v) = 40
        /\ tags[c].t = "list" /\ Len(tags[c].v) = 3

(***************************************************************************)
(* clamp_text as a function of its arguments                               *)
(***************************************************************************)
MaxRuns == 3
RunLens == {1, 1000, 2000, 3999}
ClampAlphabet == {"a", SP, TAB, NL}
MaxCharsArgs == {0, 1, 3003, 3004, 3999, 5000}

RECURSIVE TextsOfRuns(_)
TextsOfRuns(k) ==
    IF k = 0 THEN {<<>>}
    ELSE LET shorter == TextsOfRuns(k - 1)
         IN shorter \cup
            { Append(s, Run(c, n)) :
                s \in {x \in shorter : Len(x) = k - 1},
                c \in ClampAlphabet, n \in RunLens }

Canonical(s) == \A i \in 1..(Len(s) - 1) : s[i].c # s[i + 1].c

ClampTexts == {s \in TextsOfRuns(MaxRuns) : Canonical(s)}

InitClamp ==
    /\ t \in ClampTexts
    /\ max_chars = DefaultMaxChars
    /\ clamped = <<>>
    /\ clamp_pc = "call"
    /\ variant = Cli
    /\ environ = DefaultEnviron
    /\ ua_writer = 0
    /\ pc = <<>>
    /\ url = <<>>
    /\ article = <<>>
    /\ content_text = <<>>
    /\ raw = <<>>
    /\ summary = <<>>
    /\ tags = <<>>
    /\ exc = <<>>
    /\ ran = <<>>
    /\ ua_used = <<>>
    /\ traf = <<>>
    /\ loaded = <<>>

\* clamp_text(t)
ClampDefault ==
    /\ clamp_pc = "call"
    /\ clamp_pc' = "return"
    /\ max_chars' = DefaultMaxChars
    /\ clamped' = clamp_text(t, DefaultMaxChars)
    /\ UNCHANGED <<t, pipeVars>>

\* clamp_text(t, m)
ClampExplicit(m) ==
    /\ clamp_pc = "call"
    /\ clamp_pc' = "return"
    /\ max_chars' = m
    /\ clamped' = clamp_text(t, m)
    /\ UNCHANGED <<t, pipeVars>>

NextClamp ==
    \/ ClampDefault
    \/ \E m \in MaxCharsArgs : ClampExplicit(m)

SpecClamp == InitClamp /\ [][NextClamp]_vars

(***************************************************************************)
(* Properties of clamp_text                                                *)
(***************************************************************************)
\* run i of s is a run of spaces or tabs, and the first run after it that is
\* neither is a line break
BeforeLineBreak(s, i) ==
    /\ s[i].c \in Blank
    /\ \E j \in (i + 1)..Len(s) :
          /\ s[j].c = NL
          /\ \A k \in i..(j - 1) : s[k].c \in Blank

\* the runs of s from i on that no line break follows, joined
RECURSIVE WithoutTrailingBlank(_, _)
WithoutTrailingBlank(s, i) ==
    IF i > Len(s) THEN <<>>
    ELSE IF BeforeLineBreak(s, i) THEN WithoutTrailingBlank(s, i + 1)
    ELSE Concat(<<s[i]>>, WithoutTrailingBlank(s, i + 1))

Max(a, b) == IF a >= b THEN a ELSE b

\* the length of every clamped text longer than the budget
ClampedLen == HeadChars + StrLen(Separator) + TailChars

\* C8: with the default budget, clamp_text(t) is the text n (t without the
\* runs of spaces and tabs that a line break follows) itself when
\* len(n) <= 4000, and otherwise the first 2000 characters of n, the
\* separator line and the last 1000 characters of n, 3004 characters in all.
C8_ClampReference ==
    (clamp_pc = "return" /\ max_chars = DefaultMaxChars) =>
        LET n == WithoutTrailingBlank(t, 1)
        IN IF StrLen(n) <= DefaultMaxChars
           THEN clamped = n
           ELSE /\ StrLen(clamped) = ClampedLen
                /\ SliceTo(clamped, HeadChars) = SliceTo(n, HeadChars)
                /\ SliceTo(SliceFrom(clamped, HeadChars), StrLen(Separator))
                     = Separator
                /\ SliceLast(clamped, TailChars) = SliceLast(n, TailChars)

\* a text with blanks before a line break that is still over the budget
\* without them has been clamped with the default budget
C8_Witness ==
    /\ clamp_pc = "return"
    /\ max_chars = DefaultMaxChars
    /\ WithoutTrailingBlank(t, 1) # t
    /\ StrLen(WithoutTrailingBlank(t, 1)) > DefaultMaxChars

\* C9 as claimed: for every text and every max_chars,
\* len(clamp_text(t, max_chars)) <= max_chars.
C9_WithinAnyBudget ==
    clamp_pc = "return" => StrLen(clamped) <= max_chars

\* C9 amended: len(clamp_text(t, max_chars)) <= max(max_chars, 3004), so the
\* result is within max_chars for every max_chars >= 3004.
C9_WithinBudgetFrom3004 ==
    clamp_pc = "return" =>
        /\ StrLen(clamped) <= Max(max_chars, ClampedLen)
        /\ max_chars >= ClampedLen => StrLen(clamped) <= max_chars

\* a text over a budget of at least 3004 characters has been cut
C9_Witness ==
    /\ clamp_pc = "return"
    /\ max_chars >= ClampedLen
    /\ StrLen(WithoutTrailingBlank(t, 1)) > max_chars
    /\ StrLen(clamped) = ClampedLen
====
